---- MODULE Spec2Model ----
(***************************************************************************)
(* The Redis lease lock of physical/redis.go (RedisBackend.LockWith,       *)
(* RedisLock.Lock / Unlock / simulateExpiration) as a timed state machine. *)
(*                                                                         *)
(* Time is counted in ticks.  A second is Second ticks, and every duration *)
(* of the configuration (leader_ttl, leader_ttl_renew_interval,            *)
(* leader_lock_retry_interval) is a number of ticks.  A store command that *)
(* follows a timer (the claim after time.After, the renewal script after   *)
(* time.Sleep) is answered at most one tick after the timer fires: this is *)
(* the store round trip, and it is shorter than every renew interval the   *)
(* model draws (two ticks or more).  Timers are kept as remaining ticks,   *)
(* the value -1 meaning that the timer fired one tick ago and the command  *)
(* is still under way.                                                     *)
(***************************************************************************)
EXTENDS Integers, Sequences, FiniteSets, TLC

\* ---------------------------------------------------------------- bounds
NInst == 2          \* lock objects obtained from LockWith
MaxTasks == 2       \* renewal goroutines started in one run
Second == 2         \* ticks in one second (time.Second)
MaxTTL == 5         \* largest leader_ttl drawn, in ticks
MaxRenew == 3       \* largest leader_ttl_renew_interval drawn, in ticks
MaxRetry == 1       \* largest leader_lock_retry_interval drawn, in ticks
MaxConfLen == 2     \* longest string of the conf map built from ConfChars
MaxKeys == 3        \* most keys stored when List is called
MaxKeyLen == 2      \* longest stored key built from KeyChars, KeyExamples apart
MaxPrefixLen == 2   \* longest prefix given to List
MaxShares == 3      \* largest seal threshold drawn
MaxAttempts == 3    \* root generation attempts started in one run
MaxConns == 3       \* connections one call of Lock takes from the pool

Inst == 1..NInst
Ident == {"a", "b"}
NoRec == [val |-> "", ttl |-> 0]
NoFreed == [who |-> {}, age |-> 0]
NoPool == [on |-> FALSE, held |-> [i \in Inst |-> 0]]
ConfErr == [leaderTTL |-> 0, leaderTTLRenewInterval |-> 0, leaderLockRetryInterval |-> 0, ok |-> FALSE]

VARIABLES
    lockConf,   \* RedisBackend.lockConf, with ok = FALSE when construction failed
    value,      \* RedisLock.value of every lock object
    lockKey,    \* RedisLock.key, the key of the lease record in the store
    rec,        \* the lease record at RedisLock.key: value and remaining expiry
    pc,         \* where the caller of each lock object stands: "idle" or "select"
    ctimer,     \* remaining ticks of time.After in Lock's select
    stop,       \* stopCh of the current Lock call: "open", "closed", "prefired"
    tasks,      \* renewal goroutines in start order, each with its leaderCh
    hist,       \* whether the ages of the history are counted
    gone,       \* history: why the lease record is absent: "expired",
                \* "deleted", or "none" when it is present or never existed
    freed,      \* history: the waiting callers that saw a successful Unlock
                \* and no claim since, and the ticks since that Unlock
    last,       \* history: the step taken last, who took it, the lease record
                \* and the number of goroutines before it, and its result
    pool,       \* c.pool: whether the connections are counted, and the
                \* connections the running call of Lock of every lock
                \* object has taken and not closed
    conf,       \* the conf map given to newRedisBackend
    data,       \* the keys of the store outside the lease key, with their values
    written,    \* history: the value last Put under each key and not deleted,
                \* with the value it replaced
    core,       \* the root generation of vault.Core: the seal threshold, the
                \* attempt and its progress
    out         \* the last call on the backend with what it returned

lockVars == <<lockConf, value, lockKey, rec, pc, ctimer, stop, tasks, hist, gone, freed, last,
             pool>>
backVars == <<conf, data, written, core, out>>
vars == <<lockConf, value, lockKey, rec, pc, ctimer, stop, tasks, hist, gone, freed, last,
          pool, conf, data, written, core, out>>

\* ----------------------------------------------------------- configuration
\* Variant: the renew interval is only checked against the whole TTL.
newRedisBackendWholeTTL(ttl, renew, retry) ==
    IF renew > ttl
    THEN ConfErr
    ELSE [leaderTTL |-> ttl, leaderTTLRenewInterval |-> renew,
          leaderLockRetryInterval |-> retry, ok |-> TRUE]

\* newRedisBackend: the three timeouts and the check of the renew interval.
newRedisBackend(ttl, renew, retry) ==
    IF 2 * renew > ttl
    THEN ConfErr
    ELSE [leaderTTL |-> ttl, leaderTTLRenewInterval |-> renew,
          leaderLockRetryInterval |-> retry, ok |-> TRUE]

\* The conf map: every key is absent or carries a string.  A string is the
\* sequence of its characters.
ConfKeys == {"leader_ttl", "leader_ttl_renew_interval", "leader_lock_retry_interval"}
ConfChars == {"0", "4", "6", "-", "x"}
ConfExamples == {<<"1", "0", "0", "0">>, <<"6", "0", "0">>, <<"4", "0", "0">>}
ConfStrings == UNION {[1..n -> ConfChars] : n \in 0..MaxConfLen} \cup ConfExamples
NoEntry == [ok |-> FALSE, s |-> <<>>]
ConfEntries == {NoEntry} \cup {[ok |-> TRUE, s |-> str] : str \in ConfStrings}
NoConf == [k \in ConfKeys |-> NoEntry]

\* strconv.Atoi: an optional sign, then decimal digits, at least one.
DigitVal == [c \in {"0", "1", "2", "3", "4", "5", "6", "7", "8", "9"} |->
                CASE c = "0" -> 0 [] c = "1" -> 1 [] c = "2" -> 2 [] c = "3" -> 3
                  [] c = "4" -> 4 [] c = "5" -> 5 [] c = "6" -> 6 [] c = "7" -> 7
                  [] c = "8" -> 8 [] OTHER -> 9]

RECURSIVE AtoiDigits(_, _)
AtoiDigits(str, n) ==
    IF str = <<>> THEN [v |-> n, err |-> FALSE]
    ELSE IF Head(str) \notin DOMAIN DigitVal THEN [v |-> 0, err |-> TRUE]
    ELSE AtoiDigits(Tail(str), n * 10 + DigitVal[Head(str)])

Atoi(str) ==
    IF str = <<>> THEN [v |-> 0, err |-> TRUE]
    ELSE LET signed == Head(str) \in {"+", "-"}
             digits == IF signed THEN Tail(str) ELSE str
             a == AtoiDigits(digits, 0)
         IN IF digits = <<>> THEN [v |-> 0, err |-> TRUE]
            ELSE IF a.err THEN a
            ELSE [v |-> IF Head(str) = "-" THEN -a.v ELSE a.v, err |-> FALSE]

\* Durations of the conf map are counted in milliseconds.
Millisecond == 1
DefaultLeaderTTL == 30 * 1000 * Millisecond
DefaultLeaderTTLRenewInterval == 1 * 1000 * Millisecond
DefaultLeaderLockRetryInterval == 5 * 1000 * Millisecond

\* Variant: a string that does not parse yields the default.
parseRedisTimeoutLenient(c, key, defaultVal) ==
    IF ~c[key].ok THEN [v |-> defaultVal, err |-> FALSE]
    ELSE LET a == Atoi(c[key].s)
         IN IF a.err THEN [v |-> defaultVal, err |-> FALSE]
            ELSE [v |-> a.v * Millisecond, err |-> FALSE]

\* parseRedisTimeout(conf, key, defaultVal)
parseRedisTimeout(c, key, defaultVal) ==
    IF ~c[key].ok THEN [v |-> defaultVal, err |-> FALSE]
    ELSE LET a == Atoi(c[key].s)
         IN IF a.err THEN [v |-> 0, err |-> TRUE]
            ELSE [v |-> a.v * Millisecond, err |-> FALSE]

\* newRedisBackend(conf, logger): the three timeouts are parsed in turn, the
\* first error is returned; err names it ("" for none).
newRedisBackendFrom(c) ==
    LET ttl == parseRedisTimeout(c, "leader_ttl", DefaultLeaderTTL)
        renew == parseRedisTimeout(c, "leader_ttl_renew_interval",
                                   DefaultLeaderTTLRenewInterval)
        retry == parseRedisTimeout(c, "leader_lock_retry_interval",
                                   DefaultLeaderLockRetryInterval)
        b == newRedisBackend(ttl.v, renew.v, retry.v)
    IN IF ttl.err \/ renew.err \/ retry.err
       THEN [lockConf |-> ConfErr, err |-> "atoi"]
       ELSE [lockConf |-> b, err |-> IF b.ok THEN "" ELSE "renew"]

\* Variant: the TTL in seconds is truncated, as int() alone would.
ttlSecondsTruncated(ttl) == ttl \div Second

\* math.Ceil(float64(leaderTTL) / float64(time.Second)), the EX argument.
ttlSeconds(ttl) == (ttl + Second - 1) \div Second

\* The expiry the store applies for EX / EXPIRE ttlStr, in ticks.
Expiry == ttlSeconds(lockConf.leaderTTL) * Second

\* ------------------------------------------------------------------ store
\* Variant: SET key value EX ttl, without NX.
SetEx(r, v, ttl) == [rec |-> [val |-> v, ttl |-> ttl], reply |-> "OK"]

\* Variant: the claim sets no expiry; ttl 0 stands for a record without one.
SetNxPersist(r, v, ttl) ==
    IF r = NoRec THEN [rec |-> [val |-> v, ttl |-> 0], reply |-> "OK"]
    ELSE [rec |-> r, reply |-> "nil"]

\* Variant: a claim with the value the record holds already is taken again.
SetNxExReentrant(r, v, ttl) ==
    IF r = NoRec \/ r.val = v
    THEN [rec |-> [val |-> v, ttl |-> ttl], reply |-> "OK"]
    ELSE [rec |-> r, reply |-> "nil"]

\* SET key value NX EX ttl
SetNxEx(r, v, ttl) ==
    IF r = NoRec
    THEN [rec |-> [val |-> v, ttl |-> ttl], reply |-> "OK"]
    ELSE [rec |-> r, reply |-> "nil"]

\* Variant: EXPIRE without comparing the stored value.
bumpTtlUnchecked(r, v, ttl) ==
    IF r # NoRec
    THEN [rec |-> [r EXCEPT !.ttl = ttl], reply |-> "1"]
    ELSE [rec |-> r, reply |-> "0"]

\* Variant: EXPIRE with a fixed expiry of one second instead of ARGV[2].
bumpTtlFixed(r, v, ttl) ==
    IF r # NoRec /\ r.val = v
    THEN [rec |-> [r EXCEPT !.ttl = Second], reply |-> "1"]
    ELSE [rec |-> r, reply |-> "0"]

\* bumpTtlScript: EXPIRE only when GET returns the caller's value.
bumpTtlScript(r, v, ttl) ==
    IF r # NoRec /\ r.val = v
    THEN [rec |-> [r EXCEPT !.ttl = ttl], reply |-> "1"]
    ELSE [rec |-> r, reply |-> "0"]

\* Variant: DEL without comparing the stored value.
unlockUnchecked(r, v) ==
    IF r # NoRec
    THEN [rec |-> NoRec, reply |-> "1"]
    ELSE [rec |-> r, reply |-> "0"]

\* Variant: the value is compared, but the key is not deleted.
unlockNoDel(r, v) ==
    IF r # NoRec /\ r.val = v
    THEN [rec |-> r, reply |-> "1"]
    ELSE [rec |-> r, reply |-> "0"]

\* Variant: an absent key counts as deleted.
unlockAbsentOk(r, v) ==
    IF r = NoRec \/ r.val = v
    THEN [rec |-> NoRec, reply |-> "1"]
    ELSE [rec |-> r, reply |-> "0"]

\* unlockScript: DEL only when GET returns the caller's value.
unlockScript(r, v) ==
    IF r # NoRec /\ r.val = v
    THEN [rec |-> NoRec, reply |-> "1"]
    ELSE [rec |-> r, reply |-> "0"]

\* conn.Do: the command is answered ("ok"), or it fails with a transport
\* error ("fail"); a failed command is taken not to have reached the store.
Outcome == {"ok", "fail"}

\* Variant: a transport error is taken for an empty reply.
DoErrAsNil(cmd, r, o) ==
    IF o = "ok" THEN cmd ELSE [rec |-> r, reply |-> "nil"]

Do(cmd, r, o) ==
    IF o = "ok" THEN cmd ELSE [rec |-> r, reply |-> "err"]

\* No key outside the lease key, and no call on the backend yet.
NoData == [k \in {} |-> <<>>]
NoOut == [op |-> "none"]
\* No server: the root generation takes no part.
NoCore == [threshold |-> 0, nonce |-> 0, progress |-> 0, attempts |-> 0,
           ended |-> "none", dropped |-> 0]

\* The path of the backend, conf["path"] being absent: "vault" stands for its
\* characters, as "data" and "_lock" do below.
Path == <<"vault">>

\* LockWith(key, value): the key of the lock object, under "_lock".
LockWith(key) == Path \o <<"/", "_lock", "/">> \o key

\* ------------------------------------------------------------------- init
\* newRedisBackend with the timeouts drawn, then LockWith(key, value) for
\* every lock object, all on one key; two objects may carry the same value.
Start ==
    /\ \E ttl \in 3..MaxTTL, renew \in 2..MaxRenew, retry \in 1..MaxRetry :
           lockConf = newRedisBackend(ttl, renew, retry)
    /\ value \in [Inst -> Ident]
    /\ value[1] = "a"
    /\ lockKey = LockWith(<<"a">>)
    /\ rec = NoRec
    /\ pc = [i \in Inst |-> "idle"]
    /\ ctimer = [i \in Inst |-> 0]
    /\ stop = [i \in Inst |-> "open"]
    /\ tasks = <<>>
    /\ gone = "none"
    /\ freed = NoFreed
    /\ last = [op |-> "init", who |-> 0, before |-> NoRec, n |-> 0,
               fr |-> {}, res |-> ""]
    /\ pool \in {[NoPool EXCEPT !.on = b] : b \in BOOLEAN}
    /\ conf = NoConf
    /\ data = NoData
    /\ written = NoData
    /\ core = NoCore
    /\ out = NoOut

Init == Start /\ hist = FALSE /\ ~pool.on
\* The history is followed for the TTLs of whole seconds.
InitHist == Start /\ hist = TRUE /\ ~pool.on /\ lockConf.leaderTTL % Second = 0

\* ------------------------------------------------------------ lock object
\* Variant: the loop runs the script first and sleeps after it.
NewTaskScriptFirst(i) ==
    [inst |-> i, timer |-> 0, closes |-> 0,
     run |-> TRUE, hit |-> "no", age |-> 0, since |-> 0]

\* The goroutine started by a successful claim, about to sleep, and its
\* leaderCh: closes counts the close(leaderCh) calls, run is FALSE once the
\* goroutine has returned.  hit and age are history: hit is "hit" once the
\* record was deleted by simulateExpiration while the goroutine ran and the
\* record held its value, and "reclaimed" once the key was claimed with that
\* value again after the deletion; age counts the ticks since the deletion
\* while the goroutine runs.  Both are dropped at the first tick after the
\* goroutine returned, or after age has passed the renew interval by two.
\* hit is "unlocked" once Unlock deleted the record with the goroutine's
\* value while the goroutine ran, until the goroutine's next renewal or a
\* claim with that value.  since is history too: the ticks since the
\* goroutine was started, counted up to the renew interval.
NewTask(i) ==
    [inst |-> i, timer |-> lockConf.leaderTTLRenewInterval, closes |-> 0,
     run |-> TRUE, hit |-> "no", age |-> 0, since |-> 0]

\* Variant: only err != nil counts as a failed renewal.
RenewFailedErrOnly(reply) == reply = "err"

\* redis.Int(reply, err) of the renewal: err != nil || result == 0
RenewFailed(reply) == reply \in {"err", "0"}

\* Variant: close(leaderCh) on failure, but no return from the loop.
RenewStepNoReturn(task, reply) ==
    IF reply \in {"err", "0"}
    THEN [task EXCEPT !.closes = IF @ < 2 THEN @ + 1 ELSE @,
                      !.timer = lockConf.leaderTTLRenewInterval]
    ELSE [task EXCEPT !.timer = lockConf.leaderTTLRenewInterval]

\* Variant: the loop also ends, closing leaderCh, once stopCh is closed.
RenewStepStopped(task, reply) ==
    IF reply \in {"err", "0"} \/ stop[task.inst] = "closed"
    THEN [task EXCEPT !.closes = @ + 1, !.run = FALSE, !.timer = 0, !.age = 0]
    ELSE [task EXCEPT !.timer = lockConf.leaderTTLRenewInterval]

\* The renewal loop after one bumpTtlScript.Do: close(leaderCh) and return
\* on failure, sleep again otherwise.
RenewStep(task, reply) ==
    IF RenewFailed(reply)
    THEN [task EXCEPT !.closes = @ + 1, !.run = FALSE, !.timer = 0, !.age = 0]
    ELSE [task EXCEPT !.timer = lockConf.leaderTTLRenewInterval]

\* Variant: a select that waits for the timer alone.
SelectReadyTimerOnly(i) == IF ctimer[i] <= 0 THEN {"timer"} ELSE {}

\* The cases of Lock's select that can proceed.
SelectReady(i) ==
    (IF stop[i] # "open" THEN {"stop"} ELSE {})
        \cup (IF ctimer[i] <= 0 THEN {"timer"} ELSE {})

\* The callers of freed that still wait.
StillFreed(f, p) ==
    LET w == {j \in f.who : p[j] = "select"}
    IN IF w = {} THEN NoFreed ELSE [f EXCEPT !.who = w]

\* conn := c.pool.Get(); defer conn.Close(): a pass of the loop of Lock
\* takes a connection, and its Close is put off until Lock returns.
PoolGet(p, i) == IF p.on THEN [p EXCEPT !.held[i] = @ + 1] ELSE p

\* Lock returns: the deferred Close calls run, one for every pass.
PoolClose(p, i) == [p EXCEPT !.held[i] = 0]

\* One pass of the loop of Lock: a connection is taken, SET NX EX, then
\* return or enter the select.
Attempt(i, o) ==
    LET d == Do(SetNxEx(rec, value[i], Expiry), rec, o) IN
    /\ (d.reply = "OK") => Len(tasks) < MaxTasks
    /\ pool.on => pool.held[i] < MaxConns
    /\ pool' = IF d.reply = "nil" THEN PoolGet(pool, i)
               ELSE PoolClose(PoolGet(pool, i), i)
    /\ rec' = d.rec
    /\ tasks' =
         LET ts == [t \in DOMAIN tasks |->
                       IF d.rec # rec /\ tasks[t].hit \in {"hit", "unlocked"}
                          /\ value[tasks[t].inst] = value[i]
                       THEN [tasks[t] EXCEPT !.hit = "reclaimed"] ELSE tasks[t]]
         IN IF d.reply = "OK" THEN Append(ts, NewTask(i)) ELSE ts
    /\ pc' = [pc EXCEPT ![i] = IF d.reply = "nil" THEN "select" ELSE "idle"]
    /\ ctimer' = [ctimer EXCEPT ![i] =
                     IF d.reply = "nil" THEN lockConf.leaderLockRetryInterval ELSE 0]
    /\ gone' = IF d.rec # rec THEN "none" ELSE gone
    /\ freed' = IF d.rec # rec THEN NoFreed ELSE StillFreed(freed, pc')
    /\ last' = [op |-> "lock", who |-> i, before |-> rec, n |-> Len(tasks),
                fr |-> freed.who,
                res |-> CASE d.reply = "OK"  -> "chan"
                          [] d.reply = "nil" -> "wait"
                          [] OTHER           -> "err"]

\* Variant: Lock looks at stopCh before its first attempt.
LockCallStopFirst(i, s, o) ==
    /\ lockConf.ok
    /\ pc[i] = "idle"
    /\ stop' = [stop EXCEPT ![i] = s]
    /\ IF s = "prefired"
       THEN /\ last' = [op |-> "lock", who |-> i, before |-> rec, n |-> Len(tasks),
                        fr |-> freed.who, res |-> "nil"]
            /\ UNCHANGED <<rec, tasks, pc, ctimer, gone, freed, pool>>
       ELSE Attempt(i, o)
    /\ UNCHANGED <<lockConf, value, lockKey, hist>>

\* Lock(stopCh) is called: the first pass of the loop.
LockCall(i, s, o) ==
    /\ lockConf.ok
    /\ pc[i] = "idle"
    /\ stop' = [stop EXCEPT ![i] = s]
    /\ Attempt(i, o)
    /\ UNCHANGED <<lockConf, value, lockKey, hist>>

\* case <-time.After(leaderLockRetryInterval): the next pass of the loop.
Retry(i, o) ==
    /\ pc[i] = "select"
    /\ "timer" \in SelectReady(i)
    /\ Attempt(i, o)
    /\ UNCHANGED <<lockConf, value, lockKey, hist, stop>>

\* Variant: the cancelled call deletes the key before it returns.
CancelDeleting(i) ==
    /\ pc[i] = "select"
    /\ "stop" \in SelectReady(i)
    /\ pc' = [pc EXCEPT ![i] = "idle"]
    /\ ctimer' = [ctimer EXCEPT ![i] = 0]
    /\ rec' = NoRec
    /\ gone' = IF rec # NoRec THEN "deleted" ELSE gone
    /\ freed' = StillFreed(freed, pc')
    /\ last' = [op |-> "lock", who |-> i, before |-> rec, n |-> Len(tasks),
                fr |-> freed.who, res |-> "nil"]
    /\ pool' = PoolClose(pool, i)
    /\ UNCHANGED <<lockConf, value, lockKey, hist, stop, tasks>>

\* case <-stopCh: return nil, nil
Cancel(i) ==
    /\ pc[i] = "select"
    /\ "stop" \in SelectReady(i)
    /\ pc' = [pc EXCEPT ![i] = "idle"]
    /\ ctimer' = [ctimer EXCEPT ![i] = 0]
    /\ freed' = StillFreed(freed, pc')
    /\ last' = [op |-> "lock", who |-> i, before |-> rec, n |-> Len(tasks),
                fr |-> freed.who, res |-> "nil"]
    /\ pool' = PoolClose(pool, i)
    /\ UNCHANGED <<lockConf, value, lockKey, hist, rec, stop, tasks, gone>>

\* The caller closes stopCh.
StopFire(i) ==
    /\ stop[i] = "open"
    /\ pc[i] = "select" \/ \E t \in DOMAIN tasks : tasks[t].inst = i /\ tasks[t].run
    /\ stop' = [stop EXCEPT ![i] = "closed"]
    /\ last' = [op |-> "stop", who |-> i, before |-> rec, n |-> Len(tasks),
                fr |-> freed.who, res |-> ""]
    /\ UNCHANGED <<lockConf, value, lockKey, hist, pool, rec, pc, ctimer, tasks, gone, freed>>

\* Variant: a goroutine that gives up deletes the key on its way out.
RenewDeletingOnLoss(t, o) ==
    /\ t \in DOMAIN tasks
    /\ tasks[t].run
    /\ tasks[t].timer <= 0
    /\ LET d == Do(bumpTtlScript(rec, value[tasks[t].inst], Expiry), rec, o) IN
        /\ rec' = IF RenewFailed(d.reply) THEN NoRec ELSE d.rec
        /\ tasks' = [tasks EXCEPT ![t] = RenewStep(@, d.reply)]
        /\ gone' = IF RenewFailed(d.reply) /\ rec # NoRec THEN "deleted" ELSE gone
        /\ last' = [op |-> "renew", who |-> t, before |-> rec, n |-> Len(tasks),
                    fr |-> freed.who,
                    res |-> d.reply]
    /\ UNCHANGED <<lockConf, value, lockKey, hist, pool, pc, ctimer, stop, freed>>

\* The renewal goroutine wakes from time.Sleep and runs bumpTtlScript.
Renew(t, o) ==
    /\ t \in DOMAIN tasks
    /\ tasks[t].run
    /\ tasks[t].timer <= 0
    /\ LET d == Do(bumpTtlScript(rec, value[tasks[t].inst], Expiry), rec, o) IN
        /\ rec' = d.rec
        /\ tasks' = [tasks EXCEPT ![t] = RenewStep(@, d.reply)]
        /\ last' = [op |-> "renew", who |-> t, before |-> rec, n |-> Len(tasks),
                    fr |-> freed.who,
                    res |-> d.reply]
    /\ UNCHANGED <<lockConf, value, lockKey, hist, pool, pc, ctimer, stop, gone, freed>>

\* History: the goroutines that run with the value of the record that
\* Unlock has just deleted.
Released(ts, v) ==
    [t \in DOMAIN ts |->
        IF hist /\ ts[t].run /\ value[ts[t].inst] = v
        THEN [ts[t] EXCEPT !.hit = "unlocked", !.age = 0] ELSE ts[t]]

\* Variant: only the object whose goroutine runs may delete the record.
UnlockOfHolder(i, o) ==
    /\ lockConf.ok
    /\ pc[i] = "idle"
    /\ LET own == \E t \in DOMAIN tasks : tasks[t].inst = i /\ tasks[t].run
           d == IF own THEN Do(unlockScript(rec, value[i]), rec, o)
                ELSE [rec |-> rec, reply |-> IF o = "ok" THEN "0" ELSE "err"]
       IN
        /\ rec' = d.rec
        /\ tasks' = IF d.reply = "1" THEN Released(tasks, value[i]) ELSE tasks
        /\ gone' = IF d.rec # rec THEN "deleted" ELSE gone
        /\ freed' = IF d.reply = "1"
                    THEN StillFreed([who |-> Inst, age |-> 0], pc)
                    ELSE freed
        /\ last' = [op |-> "unlock", who |-> i, before |-> rec, n |-> Len(tasks),
                    fr |-> freed.who,
                    res |-> CASE d.reply = "err" -> "err"
                              [] d.reply = "0"   -> "notowner"
                              [] OTHER           -> "ok"]
    /\ UNCHANGED <<lockConf, value, lockKey, hist, pool, pc, ctimer, stop>>

\* Variant: a successful Unlock closes the loss channel of the object and
\* ends its goroutine.
UnlockClosing(i, o) ==
    /\ lockConf.ok
    /\ pc[i] = "idle"
    /\ LET d == Do(unlockScript(rec, value[i]), rec, o) IN
        /\ rec' = d.rec
        /\ tasks' = IF d.reply = "1"
                    THEN [t \in DOMAIN tasks |->
                             IF tasks[t].inst = i /\ tasks[t].run
                             THEN [tasks[t] EXCEPT !.closes = @ + 1, !.run = FALSE,
                                                   !.timer = 0]
                             ELSE tasks[t]]
                    ELSE tasks
        /\ gone' = IF d.rec # rec THEN "deleted" ELSE gone
        /\ freed' = IF d.reply = "1"
                    THEN StillFreed([who |-> Inst, age |-> 0], pc)
                    ELSE freed
        /\ last' = [op |-> "unlock", who |-> i, before |-> rec, n |-> Len(tasks),
                    fr |-> freed.who,
                    res |-> CASE d.reply = "err" -> "err"
                              [] d.reply = "0"   -> "notowner"
                              [] OTHER           -> "ok"]
    /\ UNCHANGED <<lockConf, value, lockKey, hist, pool, pc, ctimer, stop>>

\* Unlock()
Unlock(i, o) ==
    /\ lockConf.ok
    /\ pc[i] = "idle"
    /\ LET d == Do(unlockScript(rec, value[i]), rec, o) IN
        /\ rec' = d.rec
        /\ tasks' = IF d.reply = "1" THEN Released(tasks, value[i]) ELSE tasks
        /\ gone' = IF d.rec # rec THEN "deleted" ELSE gone
        /\ freed' = IF d.reply = "1"
                    THEN StillFreed([who |-> Inst, age |-> 0], pc)
                    ELSE freed
        /\ last' = [op |-> "unlock", who |-> i, before |-> rec, n |-> Len(tasks),
                    fr |-> freed.who,
                    res |-> CASE d.reply = "err" -> "err"
                              [] d.reply = "0"   -> "notowner"
                              [] OTHER           -> "ok"]
    /\ UNCHANGED <<lockConf, value, lockKey, hist, pool, pc, ctimer, stop>>

\* simulateExpiration(): an outside actor deletes the lease record.
simulateExpiration ==
    /\ rec # NoRec
    /\ rec' = NoRec
    /\ tasks' = [t \in DOMAIN tasks |->
                    IF hist /\ tasks[t].run /\ value[tasks[t].inst] = rec.val
                    THEN [tasks[t] EXCEPT !.hit = "hit", !.age = 0] ELSE tasks[t]]
    /\ gone' = "deleted"
    /\ last' = [op |-> "expire", who |-> 0, before |-> rec, n |-> Len(tasks),
                fr |-> freed.who, res |-> ""]
    /\ UNCHANGED <<lockConf, value, lockKey, hist, pool, pc, ctimer, stop, freed>>

\* History: one more tick since the goroutine was started.
Slept(task) ==
    [task EXCEPT !.since = IF @ < lockConf.leaderTTLRenewInterval THEN @ + 1 ELSE @]

\* One tick passes: the store counts the expiry down and deletes the record
\* at zero, the timers count down.  No tick passes while a select has a
\* fired stopCh to take or a command is one tick late.
Tick ==
    /\ lockConf.ok
    /\ \A i \in Inst : pc[i] = "select" =>
           "stop" \notin SelectReady(i) /\ ctimer[i] > -1
    /\ \A t \in DOMAIN tasks : tasks[t].run => tasks[t].timer > -1
    /\ rec' = IF rec = NoRec \/ rec.ttl = 1 THEN NoRec ELSE [rec EXCEPT !.ttl = @ - 1]
    /\ ctimer' = [i \in Inst |-> IF pc[i] = "select" THEN ctimer[i] - 1 ELSE ctimer[i]]
    /\ tasks' = [t \in DOMAIN tasks |->
                    Slept(IF tasks[t].run
                          THEN IF tasks[t].hit \in {"no", "unlocked"}
                               THEN [tasks[t] EXCEPT !.timer = @ - 1]
                               ELSE IF tasks[t].age > lockConf.leaderTTLRenewInterval + 1
                               THEN [tasks[t] EXCEPT !.timer = @ - 1, !.hit = "no", !.age = 0]
                               ELSE [tasks[t] EXCEPT !.timer = @ - 1, !.age = @ + 1]
                          ELSE [tasks[t] EXCEPT !.hit = "no"])]
    /\ gone' = IF rec # NoRec /\ rec.ttl = 1 THEN "expired" ELSE gone
    /\ freed' = IF hist /\ freed # NoFreed
                   /\ freed.age <= lockConf.leaderLockRetryInterval + 1
                THEN [freed EXCEPT !.age = @ + 1] ELSE freed
    /\ last' = [op |-> "tick", who |-> 0, before |-> rec, n |-> Len(tasks),
                fr |-> freed.who, res |-> ""]
    /\ UNCHANGED <<lockConf, value, lockKey, hist, pool, pc, stop>>

\* A step of a lock object, of a renewal goroutine, of the store or of time.
LockStep ==
    \/ \E i \in Inst, s \in {"open", "prefired"}, o \in Outcome : LockCall(i, s, o)
    \/ \E i \in Inst, o \in Outcome : Retry(i, o)
    \/ \E i \in Inst : Cancel(i)
    \/ \E i \in Inst : StopFire(i)
    \/ \E t \in 1..MaxTasks, o \in Outcome : Renew(t, o)
    \/ \E i \in Inst, o \in Outcome : Unlock(i, o)
    \/ simulateExpiration
    \/ Tick

Next == LockStep /\ UNCHANGED backVars

Spec == Init /\ [][Next]_vars
SpecHist == InitHist /\ [][Next]_vars

\* ------------------------------------------------------------------ crash
\* The process of lock object i dies: its call of Lock, if any, and its
\* goroutines end where they stand, no channel is closed and nothing is sent
\* to the store.  pc is "dead" from then on.
Crash(i) ==
    /\ lockConf.ok
    /\ pc[i] # "dead"
    /\ \E t \in DOMAIN tasks : tasks[t].inst = i /\ tasks[t].run
    /\ pc' = [pc EXCEPT ![i] = "dead"]
    /\ ctimer' = [ctimer EXCEPT ![i] = 0]
    /\ tasks' = [t \in DOMAIN tasks |->
                    IF tasks[t].inst = i
                    THEN [tasks[t] EXCEPT !.run = FALSE, !.timer = 0, !.hit = "no",
                                          !.age = 0]
                    ELSE tasks[t]]
    /\ freed' = StillFreed(freed, pc')
    /\ last' = [op |-> "crash", who |-> i, before |-> rec, n |-> Len(tasks),
                fr |-> freed.who, res |-> ""]
    /\ pool' = PoolClose(pool, i)
    /\ UNCHANGED <<lockConf, value, lockKey, hist, rec, stop, gone>>

\* Lock objects of two processes with their own identities, and a TTL that
\* is rounded up.
InitCrash ==
    /\ Start /\ hist = FALSE /\ ~pool.on
    /\ value[1] # value[2]
    /\ lockConf.ok /\ lockConf.leaderTTL % Second # 0

\* The steps of the lock objects, stopCh being open when Lock is called and
\* nobody deleting the record by hand, and the crashes.
NextCrash ==
    \/ Next /\ last'.op # "expire" /\ \A i \in Inst : stop'[i] # "prefired"
    \/ \E i \in Inst : Crash(i) /\ UNCHANGED backVars

\* Time passes, however often a command that is due holds it up for an
\* instant, and a goroutine or a call of Lock whose sleep is over runs: the
\* scheduler of the Go runtime leaves none of them behind.
Fairness ==
    /\ SF_vars(Tick /\ UNCHANGED backVars)
    /\ \A i \in Inst :
          /\ WF_vars((\E o \in Outcome : Retry(i, o)) /\ UNCHANGED backVars)
          /\ WF_vars(Cancel(i) /\ UNCHANGED backVars)
    /\ \A t \in 1..MaxTasks :
          WF_vars((\E o \in Outcome : Renew(t, o)) /\ UNCHANGED backVars)

SpecCrash == InitCrash /\ [][NextCrash]_vars /\ Fairness

\* ------------------------------------------------------------- the pool
\* The lock objects of a backend that was built, each with its own identity,
\* the connections that the calls of Lock take from c.pool being counted.
InitPool ==
    /\ Start /\ hist = FALSE /\ pool.on
    /\ lockConf.ok
    /\ value[1] # value[2]

SpecPool == InitPool /\ [][Next]_vars

\* ------------------------------------------------------------------ Value
\* Variant: Value answers from the object's own value.
ValueOfOwner(i, o) ==
    /\ lockConf.ok
    /\ out' = IF o = "fail" THEN [op |-> "Value", held |-> FALSE, value |-> "", err |-> TRUE]
              ELSE IF rec = NoRec \/ rec.val # value[i]
              THEN [op |-> "Value", held |-> FALSE, value |-> "", err |-> FALSE]
              ELSE [op |-> "Value", held |-> TRUE, value |-> value[i], err |-> FALSE]
    /\ last' = [op |-> "value", who |-> i, before |-> rec, n |-> Len(tasks),
                fr |-> freed.who, res |-> ""]
    /\ UNCHANGED <<lockConf, value, lockKey, rec, pc, ctimer, stop, tasks, hist, gone,
                   freed, pool,
                   conf, data, written, core>>

\* Value(): GET key; a transport error, nobody holds the lock, or the value
\* of the holder.  out is what the call returned.
Value(i, o) ==
    /\ lockConf.ok
    /\ out' = IF o = "fail" THEN [op |-> "Value", held |-> FALSE, value |-> "", err |-> TRUE]
              ELSE IF rec = NoRec
              THEN [op |-> "Value", held |-> FALSE, value |-> "", err |-> FALSE]
              ELSE [op |-> "Value", held |-> TRUE, value |-> rec.val, err |-> FALSE]
    /\ last' = [op |-> "value", who |-> i, before |-> rec, n |-> Len(tasks),
                fr |-> freed.who, res |-> ""]
    /\ UNCHANGED <<lockConf, value, lockKey, rec, pc, ctimer, stop, tasks, hist, gone,
                   freed, pool,
                   conf, data, written, core>>

\* The lock with callers that also inspect it; the next step of the lock
\* drops what Value returned.
NextValue ==
    \/ LockStep /\ out' = NoOut /\ UNCHANGED <<conf, data, written, core>>
    \/ \E i \in Inst, o \in Outcome : Value(i, o)

SpecValue == Init /\ [][NextValue]_vars

\* ------------------------------------------------- backend construction
\* The lock objects of a backend that is not built yet: none is in use.
NoLock ==
    /\ lockConf = ConfErr
    /\ value = [i \in Inst |-> "a"]
    /\ lockKey = LockWith(<<"a">>)
    /\ rec = NoRec
    /\ pc = [i \in Inst |-> "idle"]
    /\ ctimer = [i \in Inst |-> 0]
    /\ stop = [i \in Inst |-> "open"]
    /\ tasks = <<>>
    /\ hist = FALSE
    /\ pool = NoPool
    /\ gone = "none"
    /\ freed = NoFreed
    /\ last = [op |-> "init", who |-> 0, before |-> NoRec, n |-> 0,
               fr |-> {}, res |-> ""]

\* A conf map is drawn; nothing is built yet.
InitConf ==
    /\ NoLock
    /\ conf \in [ConfKeys -> ConfEntries]
    /\ data = NoData
    /\ written = NoData
    /\ core = NoCore
    /\ out = NoOut

\* newRedisBackend(conf, logger) is called: the backend carries lockConf,
\* or an error is returned and there is no backend.
Build ==
    /\ out = NoOut
    /\ LET b == newRedisBackendFrom(conf) IN
        /\ lockConf' = b.lockConf
        /\ out' = [op |-> "newRedisBackend", err |-> b.err]
    /\ UNCHANGED <<value, lockKey, rec, pc, ctimer, stop, tasks, hist, gone, freed, last,
                   pool, conf, data, written, core>>

NextConf == Build

SpecConf == InitConf /\ [][NextConf]_vars

\* ----------------------------------------------------- key-value backend
\* A string is the sequence of its characters; "vault" and "data" stand for
\* their characters, none of which is '/' or '*'.  A value is a sequence of
\* bytes.
KeyChars == {"a", "/", "*"}
KVKeys == {<<"a">>, <<"a", "/", "a">>, <<"*">>}
KVValues == {<<>>, <<1>>, <<2>>}

\* Variant: the key of an entry is path/key, with no "data" between.
keyPathNoData(key) == Path \o <<"/">> \o key

\* keyPath: fmt.Sprintf("%s/data/%s", c.path, key)
keyPath(key) == Path \o <<"/", "data", "/">> \o key

\* Variant: SET key value NX, which keeps the value of an existing key.
SetNx(d, k, v) ==
    IF k \in DOMAIN d THEN d ELSE [x \in DOMAIN d \cup {k} |-> IF x = k THEN v ELSE d[x]]

\* SET key value
Set(d, k, v) == [x \in DOMAIN d \cup {k} |-> IF x = k THEN v ELSE d[x]]

\* Variant: the key is deleted together with every key it is a prefix of.
DelPrefix(d, k) ==
    [x \in {y \in DOMAIN d : Len(y) < Len(k) \/ SubSeq(y, 1, Len(k)) # k} |-> d[x]]

\* DEL key
Del(d, k) == [x \in DOMAIN d \ {k} |-> d[x]]

\* History: key k now has value v, put in place of the values prev.
Wrote(w, k, v) ==
    [x \in DOMAIN w \cup {k} |->
        IF x = k THEN [v |-> v, prev |-> IF k \in DOMAIN w THEN <<w[k].v>> ELSE <<>>]
        ELSE w[x]]

\* The keys stored before a call, for out.
Before == [data |-> data]

\* Put(entry): SET keyPath(entry.Key) entry.Value
Put(k, v, o) ==
    /\ data' = IF o = "ok" THEN Set(data, keyPath(k), v) ELSE data
    /\ written' = IF o = "ok" THEN Wrote(written, k, v) ELSE written
    /\ out' = [op |-> "Put", key |-> k, value |-> v, err |-> o # "ok", before |-> Before]
    /\ UNCHANGED <<lockVars, conf, core>>

\* Get(key): GET keyPath(key); nil, nil for a nil reply, else the entry with
\* the bytes of the reply.
Get(k, o) ==
    /\ out' = IF o # "ok"
              THEN [op |-> "Get", key |-> k, found |-> FALSE, entry |-> <<>>,
                    err |-> TRUE, before |-> Before]
              ELSE IF keyPath(k) \notin DOMAIN data
              THEN [op |-> "Get", key |-> k, found |-> FALSE, entry |-> <<>>,
                    err |-> FALSE, before |-> Before]
              ELSE [op |-> "Get", key |-> k, found |-> TRUE,
                    entry |-> [Key |-> k, Value |-> data[keyPath(k)]],
                    err |-> FALSE, before |-> Before]
    /\ UNCHANGED <<lockVars, conf, data, written, core>>

\* Delete(key): DEL keyPath(key)
Delete(k, o) ==
    /\ data' = IF o = "ok" THEN Del(data, keyPath(k)) ELSE data
    /\ written' = IF o = "ok" THEN [x \in DOMAIN written \ {k} |-> written[x]]
                  ELSE written
    /\ out' = [op |-> "Delete", key |-> k, err |-> o # "ok", before |-> Before]
    /\ UNCHANGED <<lockVars, conf, core>>

\* A backend with nothing stored.
InitKV ==
    /\ NoLock
    /\ conf = NoConf
    /\ data = NoData
    /\ written = NoData
    /\ core = NoCore
    /\ out = NoOut

NextKV ==
    \/ \E k \in KVKeys, v \in KVValues, o \in Outcome : Put(k, v, o)
    \/ \E k \in KVKeys, o \in Outcome : Get(k, o)
    \/ \E k \in KVKeys, o \in Outcome : Delete(k, o)

SpecKV == InitKV /\ [][NextKV]_vars

\* ------------------------------------------------------------------- List
\* strings.HasPrefix, strings.HasSuffix, strings.TrimPrefix, and
\* strings.Index for a single character (-1 when it does not occur).
HasPrefix(str, pre) == Len(pre) <= Len(str) /\ SubSeq(str, 1, Len(pre)) = pre
HasSuffix(str, suf) ==
    Len(suf) <= Len(str) /\ SubSeq(str, Len(str) - Len(suf) + 1, Len(str)) = suf
TrimPrefix(str, pre) ==
    IF HasPrefix(str, pre) THEN SubSeq(str, Len(pre) + 1, Len(str)) ELSE str
Index(str, c) ==
    LET at == {n \in 1..Len(str) : str[n] = c}
    IN IF at = {} THEN -1 ELSE (CHOOSE n \in at : \A m \in at : n <= m) - 1

\* The pattern of KEYS: '*' matches any run of characters, every other
\* character of the strings drawn here matches itself.
RECURSIVE GlobMatch(_, _)
GlobMatch(pat, str) ==
    IF pat = <<>> THEN str = <<>>
    ELSE IF Head(pat) = "*"
    THEN GlobMatch(Tail(pat), str) \/ (str # <<>> /\ GlobMatch(pat, Tail(str)))
    ELSE str # <<>> /\ Head(str) = Head(pat) /\ GlobMatch(Tail(pat), Tail(str))

\* KEYS pattern, and the orders in which the store may reply.
Keys(d, pat) == {k \in DOMAIN d : GlobMatch(pat, k)}
Orders(m) ==
    {q \in [1..Cardinality(m) -> m] :
        \A x, y \in 1..Cardinality(m) : x # y => q[x] # q[y]}

\* Variant: the slash is appended whether or not the prefix ends with one.
realPrefixSlashAdded(prefix) == keyPath(prefix) \o <<"/">>

\* realPrefix: keyPath(prefix), with a trailing slash unless it has one.
realPrefix(prefix) ==
    IF HasSuffix(keyPath(prefix), <<"/">>)
    THEN keyPath(prefix) ELSE keyPath(prefix) \o <<"/">>

\* The loop over the matches: results and the directories seen so far.
RECURSIVE ListLoop(_, _, _, _)
ListLoop(matches, rp, results, dirs) ==
    IF matches = <<>> THEN results
    ELSE LET match == TrimPrefix(Head(matches), rp)
             slashPos == Index(match, "/")
             dir == SubSeq(match, 1, slashPos + 1)
         IN IF slashPos = -1
            THEN ListLoop(Tail(matches), rp, Append(results, match), dirs)
            ELSE IF dir \notin dirs
            THEN ListLoop(Tail(matches), rp, Append(results, dir), dirs \cup {dir})
            ELSE ListLoop(Tail(matches), rp, results, dirs)

\* List(prefix): KEYS realPrefix*, replied in the order q, then the loop; on
\* a transport error the empty list and the error.  List changes nothing, so
\* one call is followed from every set of stored keys.
List(prefix, q, o) ==
    /\ out = NoOut
    /\ q \in Orders(Keys(data, realPrefix(prefix) \o <<"*">>))
    /\ out' = IF o = "ok"
              THEN [op |-> "List", prefix |-> prefix, err |-> FALSE,
                    names |-> ListLoop(q, realPrefix(prefix), <<>>, {})]
              ELSE [op |-> "List", prefix |-> prefix, err |-> TRUE, names |-> <<>>]
    /\ UNCHANGED <<lockVars, conf, data, written, core>>

\* The strings of at most n characters of cs.
Strings(cs, n) == UNION {[1..m -> cs] : m \in 0..n}

\* The sets of at most n elements of ks.
RECURSIVE SubsetsUpTo(_, _)
SubsetsUpTo(ks, n) ==
    IF n = 0 THEN {{}}
    ELSE LET sm == SubsetsUpTo(ks, n - 1)
         IN sm \cup {t \cup {k} : t \in sm, k \in ks}

KeyExamples == {<<"a", "/", "a">>, <<"a", "/", "*">>, <<"*", "/", "a">>,
                <<"a", "/", "a", "/">>, <<"a", "/", "a", "/", "a">>,
                <<"a", "/", "a", "/", "*">>}
ListKeys == Strings(KeyChars, MaxKeyLen) \cup KeyExamples
Prefixes == Strings(KeyChars, MaxPrefixLen)

\* A backend in which some keys were Put, each once.
InitList ==
    /\ NoLock
    /\ conf = NoConf
    /\ \E ks \in SubsetsUpTo(ListKeys, MaxKeys) :
           /\ written = [k \in ks |-> [v |-> <<1>>, prev |-> <<>>]]
           /\ core = NoCore
           /\ data = [rk \in {keyPath(k) : k \in ks} |-> <<1>>]
    /\ out = NoOut

NextList ==
    \E prefix \in Prefixes, o \in Outcome :
        \E q \in Orders(Keys(data, realPrefix(prefix) \o <<"*">>)) : List(prefix, q, o)

SpecList == InitList /\ [][NextList]_vars

\* ------------------------------------------ one store for keys and leases
\* The store has one key space: rec is what it holds at lockKey, data what
\* it holds at every other key.  A command of the backend whose key is
\* lockKey acts on rec: SET stores the bytes of the entry ("entry") without
\* expiry (ttl 0), DEL removes the record, GET reads it, KEYS lists it.
Stored == IF rec = NoRec THEN data ELSE Set(data, lockKey, rec.val)
lockRest == <<lockConf, value, lockKey, pc, ctimer, stop, tasks, hist, gone, freed, last, pool>>

StorePut(k, v, o) ==
    IF keyPath(k) # lockKey THEN Put(k, v, o)
    ELSE /\ rec' = IF o = "ok" THEN [val |-> "entry", ttl |-> 0] ELSE rec
         /\ out' = [op |-> "Put", key |-> k, value |-> v, err |-> o # "ok",
                    before |-> Before]
         /\ UNCHANGED <<lockRest, conf, data, written, core>>

StoreGet(k, o) ==
    IF keyPath(k) # lockKey THEN Get(k, o)
    ELSE /\ out' = [op |-> "Get", key |-> k, found |-> o = "ok" /\ rec # NoRec,
                    entry |-> IF o = "ok" /\ rec # NoRec
                              THEN [Key |-> k, Value |-> rec.val] ELSE <<>>,
                    err |-> o # "ok", before |-> Before]
         /\ UNCHANGED <<lockVars, conf, data, written, core>>

StoreDelete(k, o) ==
    IF keyPath(k) # lockKey THEN Delete(k, o)
    ELSE /\ rec' = IF o = "ok" THEN NoRec ELSE rec
         /\ out' = [op |-> "Delete", key |-> k, err |-> o # "ok", before |-> Before]
         /\ UNCHANGED <<lockRest, conf, data, written, core>>

StoreList(prefix, o) ==
    IF rec = NoRec \/ ~GlobMatch(realPrefix(prefix) \o <<"*">>, lockKey)
    THEN \E q \in Orders(Keys(data, realPrefix(prefix) \o <<"*">>)) : List(prefix, q, o)
    ELSE /\ out = NoOut
         /\ \E q \in Orders(Keys(Stored, realPrefix(prefix) \o <<"*">>)) :
                out' = IF o = "ok"
                       THEN [op |-> "List", prefix |-> prefix, err |-> FALSE,
                             names |-> ListLoop(q, realPrefix(prefix), <<>>, {})]
                       ELSE [op |-> "List", prefix |-> prefix, err |-> TRUE,
                             names |-> <<>>]
         /\ UNCHANGED <<lockVars, conf, data, written, core>>

\* The names given to LockWith and the keys and prefixes given to the
\* backend, among them names that spell the other sub-path.
LockNames == {<<"a">>, <<"..", "/", "data", "/", "a">>}
SharedKeys == {<<"a">>, <<"_lock", "/", "a">>}
SharedPrefixes == {<<>>, <<"..", "/", "_lock">>}

\* One backend with its timeouts, one lock name, nothing stored.
InitShared ==
    /\ lockConf = newRedisBackend(4, 2, 1)
    /\ value = [i \in Inst |-> IF i = 1 THEN "a" ELSE "b"]
    /\ \E name \in LockNames : lockKey = LockWith(name)
    /\ rec = NoRec
    /\ pc = [i \in Inst |-> "idle"]
    /\ ctimer = [i \in Inst |-> 0]
    /\ stop = [i \in Inst |-> "open"]
    /\ tasks = <<>>
    /\ hist = FALSE
    /\ pool = NoPool
    /\ gone = "none"
    /\ freed = NoFreed
    /\ last = [op |-> "init", who |-> 0, before |-> NoRec, n |-> 0,
               fr |-> {}, res |-> ""]
    /\ conf = NoConf
    /\ data = NoData
    /\ written = NoData
    /\ core = NoCore
    /\ out = NoOut

\* The lock used by its first object, claimed once and never cancelled,
\* while the backend stores entries; a step of the lock drops what the last
\* call on the backend returned.
NextShared ==
    \/ /\ LockStep
       /\ pc'[2] = "idle"
       /\ Len(tasks') <= 1
       /\ stop' = stop
       /\ out' = NoOut
       /\ UNCHANGED <<conf, data, written, core>>
    \/ \E k \in SharedKeys, o \in Outcome : StorePut(k, <<1>>, o)
    \/ \E k \in SharedKeys, o \in Outcome : StoreGet(k, o)
    \/ \E k \in SharedKeys, o \in Outcome : StoreDelete(k, o)
    \/ \E prefix \in SharedPrefixes, o \in Outcome : StoreList(prefix, o)

\* -------------------------------------------------------- root generation
\* The statuses of the responses.
StatusOK == 200
StatusNoContent == 204
StatusBadRequest == 400
StatusMethodNotAllowed == 405
StatusInternalServerError == 500

Methods == {"GET", "PUT", "POST", "DELETE", "HEAD"}
HexChars == {"0", "1"}
\* The strings given as key: none, the hex of the share, the hex of another
\* key, an odd number of digits, and a string that is no hex.
KeyStrings == {<<>>, <<"0", "1">>, <<"1", "0">>, <<"0">>, <<"g", "0">>}
\* The one master key share of the server, as bytes.
Share == <<1>>

\* vault.Core, which this repository uses and does not contain, as the
\* documentation of the endpoints and the tests describe it.  nonce is 0
\* while there is no attempt (RootGenerationConfiguration returns nil);
\* attempts counts the nonces handed out, so that every attempt gets a new
\* one.  ended and dropped are history: how the last attempt ended and the
\* progress it had made then.
RootGenerationInit(c) ==
    IF c.nonce # 0
    THEN [core |-> c, err |-> TRUE]
    ELSE [core |-> [c EXCEPT !.nonce = c.attempts + 1, !.attempts = @ + 1,
                             !.progress = 0],
          err |-> FALSE]

RootGenerationCancel(c) ==
    [core |-> [c EXCEPT !.nonce = 0, !.progress = 0], err |-> FALSE]

RootGenerationUpdate(c, key, nonce) ==
    IF c.nonce = 0 \/ nonce # c.nonce \/ key # Share
    THEN [core |-> c, err |-> TRUE, result |-> [Progress |-> 0, Required |-> 0]]
    ELSE IF c.progress + 1 < c.threshold
    THEN [core |-> [c EXCEPT !.progress = @ + 1], err |-> FALSE,
          result |-> [Progress |-> c.progress + 1, Required |-> c.threshold]]
    ELSE [core |-> [c EXCEPT !.nonce = 0, !.progress = 0], err |-> FALSE,
          result |-> [Progress |-> c.threshold, Required |-> c.threshold]]

\* History: the attempt of c is over in c2.
Ended(c, c2, how) ==
    IF c.nonce # 0 /\ c2.nonce = 0
    THEN [c2 EXCEPT !.ended = how, !.dropped = c.progress] ELSE c2

\* type RootGenerationStatusResponse
NoBody == [Nonce |-> 0, Started |-> FALSE, Progress |-> 0, Required |-> 0,
           Complete |-> FALSE, none |-> TRUE]

\* What a handler answered: out of a request with key and nonce, made when
\* the core was before.  op is "refused" for a method the path does not take.
Answer(op, code, body, key, nonce) ==
    [op |-> op, code |-> code, body |-> body, key |-> key, nonce |-> nonce,
     before |-> core]

\* hex.DecodeString
HexVal(ch) == IF ch = "1" THEN 1 ELSE 0
DecodeString(str) ==
    IF Len(str) % 2 = 1 \/ \E i \in DOMAIN str : str[i] \notin HexChars
    THEN [err |-> TRUE, bytes |-> <<>>]
    ELSE [err |-> FALSE,
          bytes |-> [i \in 1..(Len(str) \div 2) |->
                        16 * HexVal(str[2 * i - 1]) + HexVal(str[2 * i])]]

\* Variant: the status is always one of a started attempt.
InitGetStatusStarted(c) ==
    [Nonce |-> c.nonce, Started |-> TRUE, Progress |-> c.progress,
     Required |-> c.threshold, Complete |-> FALSE, none |-> FALSE]

\* Variant: the status carries no nonce.
InitGetStatusNoNonce(c) ==
    [Nonce |-> 0, Started |-> c.nonce # 0, Progress |-> c.progress,
     Required |-> c.threshold, Complete |-> FALSE, none |-> FALSE]

\* The status that the GET formats.
InitGetStatus(c) ==
    [Nonce |-> c.nonce, Started |-> c.nonce # 0, Progress |-> c.progress,
     Required |-> c.threshold, Complete |-> FALSE, none |-> FALSE]

\* GET /sys/root-generation/attempt
handleSysRootGenerationInitGet ==
    /\ out' = IF core.threshold = 0
              THEN Answer("status", StatusBadRequest, NoBody, <<>>, 0)
              ELSE Answer("status", StatusOK, InitGetStatus(core), <<>>, 0)
    /\ UNCHANGED <<lockVars, conf, data, written, core>>

\* PUT /sys/root-generation/attempt
handleSysRootGenerationInitPut ==
    LET r == RootGenerationInit(core) IN
    /\ r.err \/ core.attempts < MaxAttempts
    /\ core' = r.core
    /\ out' = Answer("init", IF r.err THEN StatusBadRequest ELSE StatusNoContent,
                     NoBody, <<>>, 0)
    /\ UNCHANGED <<lockVars, conf, data, written>>

\* DELETE /sys/root-generation/attempt
handleSysRootGenerationInitDelete ==
    LET r == RootGenerationCancel(core) IN
    /\ core' = Ended(core, r.core, "cancelled")
    /\ out' = Answer("cancel",
                     IF r.err THEN StatusInternalServerError ELSE StatusNoContent,
                     NoBody, <<>>, 0)
    /\ UNCHANGED <<lockVars, conf, data, written>>

\* /sys/root-generation/attempt
handleSysRootGenerationInit(method) ==
    \/ method = "GET" /\ handleSysRootGenerationInitGet
    \/ method \in {"POST", "PUT"} /\ handleSysRootGenerationInitPut
    \/ method = "DELETE" /\ handleSysRootGenerationInitDelete
    \/ /\ method \notin {"GET", "POST", "PUT", "DELETE"}
       /\ out' = Answer("refused", StatusMethodNotAllowed, NoBody, <<>>, 0)
       /\ UNCHANGED <<lockVars, conf, data, written, core>>

\* Variant: an attempt is complete as soon as one share is in.
UpdateRespEager(result, nonce) ==
    [Nonce |-> nonce, Started |-> TRUE, Progress |-> result.Progress,
     Required |-> result.Required, Complete |-> result.Progress >= 1,
     none |-> FALSE]

\* The response to an update that the core took.
UpdateResp(result, nonce) ==
    [Nonce |-> nonce, Started |-> TRUE, Progress |-> result.Progress,
     Required |-> result.Required, Complete |-> result.Progress = result.Required,
     none |-> FALSE]

\* Variant: an error of the core is answered as a server error.
UpdateErrStatusServer == StatusInternalServerError

\* The status that answers an error of RootGenerationUpdate.
UpdateErrStatus == StatusBadRequest

\* /sys/root-generation/update
handleSysRootGenerationUpdate(method, key, nonce) ==
    LET k == DecodeString(key)
        r == RootGenerationUpdate(core, k.bytes, nonce)
    IN /\ IF method # "PUT"
          THEN /\ out' = Answer("refused", StatusMethodNotAllowed, NoBody, key, nonce)
               /\ UNCHANGED core
          ELSE IF key = <<>> \/ k.err
          THEN /\ out' = Answer("update", StatusBadRequest, NoBody, key, nonce)
               /\ UNCHANGED core
          ELSE IF r.err
          THEN /\ out' = Answer("update", UpdateErrStatus, NoBody, key, nonce)
               /\ UNCHANGED core
          ELSE /\ out' = Answer("update", StatusOK, UpdateResp(r.result, nonce),
                                key, nonce)
               /\ core' = Ended(core, r.core, "completed")
       /\ UNCHANGED <<lockVars, conf, data, written>>

\* An initialized and unsealed server with a seal threshold and no attempt.
InitRootGen ==
    /\ NoLock
    /\ conf = NoConf /\ data = NoData /\ written = NoData /\ out = NoOut
    /\ \E n \in 1..MaxShares : core = [NoCore EXCEPT !.threshold = n]

NextRootGen ==
    \/ \E m \in Methods : handleSysRootGenerationInit(m)
    \/ \E m \in {"PUT", "GET"}, k \in KeyStrings, n \in 0..MaxAttempts :
           handleSysRootGenerationUpdate(m, k, n)

SpecRootGen == InitRootGen /\ [][NextRootGen]_vars


SpecShared == InitShared /\ [][NextShared]_vars

TypeOK ==
    /\ rec = NoRec \/ (rec.val \in Ident /\ rec.ttl \in 1..Expiry)
    /\ \A i \in Inst : pc[i] \in {"idle", "select"}
    /\ Len(tasks) <= MaxTasks

\* ================================================================= claims
\* What the step taken last was.
LockReturned(i, res) == last.op = "lock" /\ last.who = i /\ last.res = res
Unlocked(i) == last.op = "unlock" /\ last.who = i
Renewed(t) == last.op = "renew" /\ last.who = t /\ t \in DOMAIN tasks
OwnValue(t) == value[tasks[t].inst]
OpenCh(t) == tasks[t].closes = 0

\* C1: a Lock call returns a loss channel only from a state without a lease
\* record, that is, when no earlier claim is still in force (its holder has
\* released it with Unlock or the record has expired); the step then writes
\* the claimer's value with the full expiry and starts one renewal goroutine.
C1_ClaimOnlyWhenFree ==
    \A j \in Inst : LockReturned(j, "chan") =>
        /\ last.before = NoRec
        /\ rec = [val |-> value[j], ttl |-> Expiry]
        /\ Len(tasks) = last.n + 1
        /\ tasks[Len(tasks)].inst = j /\ OpenCh(Len(tasks))

\* C1 witness: one lock object holds the lease with its channel open and the
\* Lock call of another object has just been refused.
C1_Contended ==
    \E i, j \in Inst :
        /\ i # j
        /\ LockReturned(j, "wait")
        /\ rec # NoRec /\ rec.val = value[i]
        /\ \E t \in DOMAIN tasks : tasks[t].inst = i /\ OpenCh(t)

\* C2: Unlock by an object whose value differs from the value in the lease
\* record leaves the record, value and expiry, as it was, and returns the
\* not-owner error (or the transport error when the store did not answer).
C2_NotOwnerKeepsLease ==
    \A i \in Inst :
        (Unlocked(i) /\ last.before # NoRec /\ last.before.val # value[i]) =>
            /\ rec = last.before
            /\ last.res \in {"notowner", "err"}

\* C2 witness: an object that claimed the lease earlier has just been refused
\* by Unlock while the record holds another value.
C2_Superseded ==
    \E i \in Inst :
        /\ Unlocked(i) /\ last.res = "notowner"
        /\ last.before # NoRec /\ last.before.val # value[i]
        /\ rec = last.before
        /\ \E t \in DOMAIN tasks : tasks[t].inst = i

\* C3: a renewal changes the lease record only when the record held the
\* renewing object's value, and then only its expiry, set to the full TTL;
\* a record absent or holding another value is left exactly as it was.
C3_RenewalFenced ==
    \A t \in DOMAIN tasks : Renewed(t) =>
        IF last.before # NoRec /\ last.before.val = OwnValue(t)
        THEN rec = last.before \/ rec = [last.before EXCEPT !.ttl = Expiry]
        ELSE rec = last.before

\* C3 witness: the renewal of a superseded holder has just been refused while
\* the record holds another value, and the record is untouched.
C3_SupersededRenewal ==
    \E t \in DOMAIN tasks :
        /\ Renewed(t) /\ last.res = "0"
        /\ last.before # NoRec /\ last.before.val # OwnValue(t)
        /\ rec = last.before

\* C4 as stated: after a forced expiry of the record of a running holder, the
\* holder's loss channel is closed within the renew interval plus one tick.
C4_Original ==
    \A t \in DOMAIN tasks :
        (tasks[t].hit # "no" /\ OpenCh(t)) =>
            tasks[t].age <= lockConf.leaderTTLRenewInterval + 1

\* C4 amended: after a forced expiry of the record of a running holder, and
\* unless the key is claimed again with the holder's value before the holder's
\* next renewal, that renewal closes the loss channel, and it comes within
\* the renew interval plus one tick (the store round trip) of the expiry.
C4_ForcedExpiryNoticed ==
    \A t \in DOMAIN tasks :
        /\ (tasks[t].hit = "hit" /\ OpenCh(t)) =>
               /\ tasks[t].age <= lockConf.leaderTTLRenewInterval + 1
               /\ tasks[t].age <= lockConf.leaderTTLRenewInterval - tasks[t].timer
        /\ (tasks[t].hit = "hit" /\ Renewed(t)) =>
               (tasks[t].closes = 1 /\ last.res \in {"0", "err"})

\* C4 witness: the first renewal after a forced expiry has just found the key
\* absent and closed the channel.
C4_LossAfterForcedExpiry ==
    \E t \in DOMAIN tasks :
        /\ tasks[t].hit = "hit" /\ Renewed(t) /\ last.res = "0"
        /\ last.before = NoRec
        /\ tasks[t].closes = 1

\* C5: every loss channel is closed at most once; the goroutine runs exactly
\* as long as its channel is open, and a renewal that fails closes the channel
\* once and ends the goroutine.
C5_SingleClose ==
    \A t \in DOMAIN tasks :
        /\ tasks[t].closes <= 1
        /\ tasks[t].run <=> OpenCh(t)
        /\ (Renewed(t) /\ last.res \in {"0", "err"}) => tasks[t].closes = 1

\* C5 witness: a renewal that found the record gone has just closed its
\* channel, while another goroutine and a Lock call are under way.
C5_ClosedOnce ==
    \E t \in DOMAIN tasks :
        /\ Renewed(t) /\ last.res = "0" /\ last.before = NoRec
        /\ tasks[t].closes = 1
        /\ Len(tasks) > 1

\* C6: a renewal attempt that meets a transport error, an absent key or a
\* value other than its own closes the loss channel and ends the goroutine;
\* a goroutine whose channel is closed makes no further attempt.
C6_FailureIsLoss ==
    \A t \in DOMAIN tasks :
        /\ (Renewed(t) /\ (last.res = "err" \/ last.before = NoRec
                           \/ last.before.val # OwnValue(t)))
               => (tasks[t].closes = 1 /\ ~tasks[t].run)
        /\ (Renewed(t) /\ ~OpenCh(t)) => last.res \in {"0", "err"}
        /\ ~OpenCh(t) => \A o \in Outcome : ~ENABLED Renew(t, o)

\* C6 witness: a transport error has just closed the channel although the
\* record still holds the goroutine's value.
C6_ErrorWhileOwner ==
    \E t \in DOMAIN tasks :
        /\ Renewed(t) /\ last.res = "err"
        /\ last.before # NoRec /\ last.before.val = OwnValue(t)
        /\ tasks[t].closes = 1

C9_PrefiredNeverWaits ==
    \A i \in Inst :
        /\ (LockReturned(i, "chan") /\ stop[i] = "prefired") => last.before = NoRec
        /\ (pc[i] = "select" /\ stop[i] = "prefired") =>
               /\ ctimer[i] = lockConf.leaderLockRetryInterval
               /\ ~ENABLED Tick
               /\ \A o \in Outcome : ~ENABLED Retry(i, o)
               /\ ENABLED Cancel(i)

\* C9 witness: such a call has just returned nil, nil while the record holds
\* another value.
C9_PrefiredReturned ==
    \E i \in Inst :
        /\ LockReturned(i, "nil") /\ stop[i] = "prefired"
        /\ rec # NoRec /\ rec.val # value[i]

\* C10: a refused attempt and the cancelled return leave the lease record as
\* it was and start no goroutine; once stopCh has fired during the wait, the
\* call can only return nil, nil, and at once.
C10_CancelHasNoEffect ==
    \A i \in Inst :
        /\ (LockReturned(i, "nil") \/ LockReturned(i, "wait")) =>
               (rec = last.before /\ Len(tasks) = last.n)
        /\ LockReturned(i, "nil") => pc[i] = "idle"
        /\ (pc[i] = "select" /\ stop[i] # "open") =>
               (ENABLED Cancel(i) /\ ~ENABLED Tick)

\* C10 witness: stopCh fired during the wait and the call has just returned
\* nil, nil, the record of the other holder being as before.
C10_Cancelled ==
    \E i \in Inst :
        /\ LockReturned(i, "nil") /\ stop[i] = "closed"
        /\ rec # NoRec /\ rec.val # value[i] /\ rec = last.before
        /\ Len(tasks) = last.n

\* C11: a claim attempt that meets a transport error, on the first pass of
\* Lock or after a wait, makes Lock return the error: the caller is back
\* outside Lock and waits for no retry, and no goroutine was started.
C11_AttemptErrorIsFatal ==
    \A i \in Inst :
        /\ LockReturned(i, "err") =>
               /\ pc[i] = "idle"
               /\ tasks = SubSeq(tasks, 1, last.n) /\ Len(tasks) = last.n
               /\ \A o \in Outcome : ~ENABLED Retry(i, o)
        /\ (lockConf.ok /\ pc[i] = "idle") =>
               ~ENABLED (/\ LockCall(i, "open", "fail")
                         /\ ~(LockReturned(i, "err"))')
        /\ (pc[i] = "select" /\ "timer" \in SelectReady(i)) =>
               ~ENABLED (/\ Retry(i, "fail")
                         /\ ~(LockReturned(i, "err"))')

\* C11 witness: a claim attempt met a transport error while
\* the key was free, and Lock has returned the error without a goroutine of
\* the caller.
C11_ErrorOnFreeKey ==
    \E i \in Inst :
        /\ LockReturned(i, "err")
        /\ last.before = NoRec /\ rec = NoRec
        /\ gone # "none"
        /\ \A t \in DOMAIN tasks : tasks[t].inst # i

\* What newRedisBackend was given and what it returned.
Built == out.op = "newRedisBackend"
Str(k) == conf[k].s
Given(k, str) == conf[k].ok /\ conf[k].s = str

\* The decimal reading of a string of digits, and the strings Atoi accepts.
Pow10(n) == CASE n = 0 -> 1 [] n = 1 -> 10 [] n = 2 -> 100 [] n = 3 -> 1000
              [] OTHER -> 10000
RECURSIVE DecimalFrom(_, _)
DecimalFrom(str, k) ==
    IF k > Len(str) THEN 0
    ELSE DigitVal[str[k]] * Pow10(Len(str) - k) + DecimalFrom(str, k + 1)
Unsigned(str) == str # <<>> /\ \A k \in 1..Len(str) : str[k] \in DOMAIN DigitVal
Numeric(str) ==
    \/ Unsigned(str)
    \/ Len(str) > 1 /\ str[1] \in {"+", "-"} /\ Unsigned(Tail(str))
Decimal(str) ==
    IF Unsigned(str) THEN DecimalFrom(str, 1)
    ELSE IF str[1] = "-" THEN -DecimalFrom(Tail(str), 1)
    ELSE DecimalFrom(Tail(str), 1)
Millis(k, d) == IF conf[k].ok THEN Decimal(Str(k)) ELSE d

\* C12: when the three timeouts are absent or numeric, newRedisBackend fails
\* exactly when twice the renew interval exceeds the TTL; a backend that was
\* built has a renew interval of at most half its TTL; TTL 1000 with renew
\* 600 is rejected, TTL 1000 with renew 400 is accepted.
C12_RenewAtMostHalfTTL ==
    Built =>
        /\ (\A k \in ConfKeys : conf[k].ok => Numeric(Str(k))) =>
               (out.err # "" <=>
                   2 * Millis("leader_ttl_renew_interval", DefaultLeaderTTLRenewInterval)
                       > Millis("leader_ttl", DefaultLeaderTTL))
        /\ (out.err = "") <=> lockConf.ok
        /\ lockConf.ok => 2 * lockConf.leaderTTLRenewInterval <= lockConf.leaderTTL
        /\ (/\ Given("leader_ttl", <<"1", "0", "0", "0">>)
            /\ Given("leader_ttl_renew_interval", <<"6", "0", "0">>)) =>
               ~lockConf.ok
        /\ (/\ Given("leader_ttl", <<"1", "0", "0", "0">>)
            /\ Given("leader_ttl_renew_interval", <<"4", "0", "0">>)
            /\ ~conf["leader_lock_retry_interval"].ok) =>
               /\ lockConf.ok
               /\ lockConf.leaderTTL = 1000 /\ lockConf.leaderTTLRenewInterval = 400

\* C12 witness: TTL 1000 with renew 600 was given and construction failed on
\* the check of the renew interval.
C12_Rejected600 ==
    /\ Built
    /\ Given("leader_ttl", <<"1", "0", "0", "0">>)
    /\ Given("leader_ttl_renew_interval", <<"6", "0", "0">>)
    /\ out.err = "renew"

\* C13: each timeout is the decimal reading of its string in milliseconds, an
\* absent key yields its default (30000, 1000, 5000), and a string that is
\* not numeric makes newRedisBackend return an error and no backend.
C13_TimeoutsParsed ==
    Built =>
        /\ (\E k \in ConfKeys : conf[k].ok /\ ~Numeric(Str(k))) =>
               (out.err = "atoi" /\ ~lockConf.ok)
        /\ (\A k \in ConfKeys : conf[k].ok => Numeric(Str(k))) => out.err # "atoi"
        /\ lockConf.ok =>
               /\ lockConf.leaderTTL = Millis("leader_ttl", 30000)
               /\ lockConf.leaderTTLRenewInterval =
                      Millis("leader_ttl_renew_interval", 1000)
               /\ lockConf.leaderLockRetryInterval =
                      Millis("leader_lock_retry_interval", 5000)
        /\ conf = NoConf =>
               lockConf = [leaderTTL |-> 30000, leaderTTLRenewInterval |-> 1000,
                           leaderLockRetryInterval |-> 5000, ok |-> TRUE]

\* C13 witness: the TTL is absent, the renew interval is a number and the
\* retry interval is not: construction has failed.
C13_NonNumericRetry ==
    /\ Built
    /\ ~conf["leader_ttl"].ok
    /\ Given("leader_ttl_renew_interval", <<"4", "0">>)
    /\ Given("leader_lock_retry_interval", <<"4", "x">>)
    /\ out.err = "atoi" /\ ~lockConf.ok

\* C14: the expiry of the record after a claim and after every successful
\* renewal is one and the same whole number of seconds, which is not shorter
\* than the configured TTL and exceeds it by less than a second.
C14_ExpiryRoundedUp ==
    lockConf.ok =>
        /\ \A i \in Inst : LockReturned(i, "chan") =>
               /\ rec.ttl % Second = 0
               /\ rec.ttl >= lockConf.leaderTTL
               /\ rec.ttl - lockConf.leaderTTL < Second
        /\ \A t \in DOMAIN tasks : (Renewed(t) /\ last.res = "1") =>
               /\ rec.ttl % Second = 0
               /\ rec.ttl >= lockConf.leaderTTL
               /\ rec.ttl - lockConf.leaderTTL < Second

\* C14 witness: the TTL is not a whole number of seconds and a renewal has
\* just extended the record that was claimed with the rounded expiry.
C14_RenewedRounded ==
    \E t \in DOMAIN tasks :
        /\ Renewed(t) /\ last.res = "1"
        /\ lockConf.leaderTTL % Second # 0
        /\ rec.ttl > lockConf.leaderTTL
        /\ last.before.ttl < lockConf.leaderTTL

\* C15: a Value call changes neither the lease record nor any lock object or
\* goroutine; it reports held = false and an empty identity when the record
\* is absent, and otherwise held = true with the identity in the record,
\* whichever object wrote it; on a transport error it reports the error.
C15_ValueReadsOnly ==
    [][last'.op = "value" =>
          /\ UNCHANGED <<lockConf, value, rec, pc, ctimer, stop, tasks>>
          /\ out'.op = "Value"
          /\ ~out'.err => /\ out'.held <=> rec # NoRec
                          /\ out'.value = rec.val
          /\ out'.err => (~out'.held /\ out'.value = "")]_vars

\* C15 witness: Value called on one object has returned the identity of
\* another, which holds the lease.
C15_OtherHolderSeen ==
    /\ last.op = "value" /\ out.op = "Value"
    /\ out.held /\ out.value # value[last.who]
    /\ rec.val = out.value
    /\ \E t \in DOMAIN tasks : tasks[t].run /\ OwnValue(t) = out.value

\* C16 as stated: a lock object whose loss channel has been closed is never
\* returned a loss channel by a later Lock call.
C16_Original ==
    \A i \in Inst : LockReturned(i, "chan") =>
        ~\E t \in 1..last.n : tasks[t].inst = i /\ ~OpenCh(t)

\* C16 amended: Lost is terminal for one acquisition, not for the lock
\* object: a loss channel that is closed stays closed and its goroutine
\* never runs again, and a Lock call that claims the lease, on an object
\* that lost or released it before included, gets a new open channel with a
\* new goroutine and leaves every earlier channel as it was.
C16_LostAcquisitionStaysLost ==
    [][/\ \A t \in DOMAIN tasks : ~OpenCh(t) =>
              /\ t \in DOMAIN tasks'
              /\ tasks'[t].closes = tasks[t].closes
              /\ ~tasks'[t].run
              /\ tasks'[t].inst = tasks[t].inst
       /\ (last'.op = "lock" /\ last'.res = "chan") =>
              /\ Len(tasks') = Len(tasks) + 1
              /\ tasks'[Len(tasks')].inst = last'.who
              /\ tasks'[Len(tasks')].closes = 0 /\ tasks'[Len(tasks')].run
              /\ \A t \in DOMAIN tasks : tasks'[t].closes = tasks[t].closes]_vars

\* C16 witness: a lock object whose earlier loss channel is closed has just
\* claimed the lease again and holds a second, open channel.
C16_HeldAgainAfterLoss ==
    \E i \in Inst :
        /\ LockReturned(i, "chan")
        /\ \E t \in 1..last.n :
               tasks[t].inst = i /\ ~OpenCh(t) /\ ~tasks[t].run
        /\ tasks[Len(tasks)].inst = i /\ OpenCh(Len(tasks))
        /\ rec.val = value[i]

\* What a call on the backend returned.
Returned(op) == out.op = op /\ ~out.err

\* C17: the keys stored are those Put and not deleted since, each with the
\* value Put last; a Put on a key that is stored returns no error and
\* replaces the value; a Get returns the entry of its key with exactly the
\* bytes Put last.
C17_GetReturnsLastPut ==
    /\ \A k \in KVKeys :
           /\ k \in DOMAIN written <=> keyPath(k) \in DOMAIN data
           /\ k \in DOMAIN written => data[keyPath(k)] = written[k].v
    /\ Returned("Put") => (out.key \in DOMAIN written /\ written[out.key].v = out.value)
    /\ (Returned("Get") /\ out.key \in DOMAIN written) =>
           /\ out.found
           /\ out.entry = [Key |-> out.key, Value |-> written[out.key].v]

\* C17 witness: a key was Put twice with different values and a Get has
\* just returned the second.
C17_OverwrittenRead ==
    /\ Returned("Get") /\ out.found
    /\ written[out.key].prev = <<<<1>>>>
    /\ out.entry.Value = <<2>>

\* C18: a Get on a key that was never Put, or deleted since, returns no
\* entry and no error; a Delete returns no error whether the key is stored
\* or not, removes its key and leaves every other key with its value.
C18_AbsentGetAndDelete ==
    /\ (Returned("Get") /\ out.key \notin DOMAIN written) => ~out.found
    /\ Returned("Delete") =>
           /\ out.key \notin DOMAIN written
           /\ keyPath(out.key) \notin DOMAIN data
           /\ \A rk \in DOMAIN out.before.data :
                  rk # keyPath(out.key) => (rk \in DOMAIN data /\ data[rk] = out.before.data[rk])
           /\ DOMAIN data \subseteq DOMAIN out.before.data
    /\ \A k \in KVKeys : ~ENABLED (Delete(k, "ok") /\ out'.err)

\* C18 witness: a Delete of a key that is not stored has returned no error
\* while another key, of which it is a prefix, stays stored.
C18_DeleteOfAbsent ==
    /\ Returned("Delete")
    /\ out.key = <<"a">>
    /\ keyPath(out.key) \notin DOMAIN out.before.data
    /\ keyPath(<<"a", "/", "a">>) \in DOMAIN data

\* The children of a prefix among the keys Put: the prefix as a directory,
\* the keys below it, and the first segment of such a key below the prefix,
\* with its slash when the key goes deeper.
AsDir(prefix) ==
    IF prefix = <<>> \/ prefix[Len(prefix)] = "/" THEN prefix ELSE prefix \o <<"/">>
Below(prefix, k) ==
    /\ Len(AsDir(prefix)) <= Len(k)
    /\ \A n \in 1..Len(AsDir(prefix)) : k[n] = AsDir(prefix)[n]
Child(prefix, k) ==
    LET from == Len(AsDir(prefix)) + 1
        slashes == {n \in from..Len(k) : k[n] = "/"}
    IN IF slashes = {} THEN [n \in 1..(Len(k) - from + 1) |-> k[from + n - 1]]
       ELSE LET upto == CHOOSE n \in slashes : \A m \in slashes : n <= m
            IN [n \in 1..(upto - from + 1) |-> k[from + n - 1]]
Children(prefix) == {Child(prefix, k) : k \in {x \in DOMAIN written : Below(prefix, x)}}
Names == {out.names[n] : n \in 1..Len(out.names)}

\* C19 as stated: every name List returns is one level below the prefix,
\* the first segment below the prefix of a stored key; it has no '/' except
\* as its last character; and no name is returned twice.
C19_Original ==
    Returned("List") =>
        \A n \in 1..Len(out.names) :
            /\ out.names[n] \in Children(out.prefix)
            /\ \A j \in 1..(Len(out.names[n]) - 1) : out.names[n][j] # "/"
            /\ \A m \in 1..Len(out.names) : m # n => out.names[m] # out.names[n]

C21_DisjointNamespaces ==
    [][/\ out' # NoOut =>
              /\ UNCHANGED lockVars
              /\ out'.op = "List" =>
                     ~GlobMatch(realPrefix(out'.prefix) \o <<"*">>, lockKey)
              /\ out'.op # "List" => keyPath(out'.key) # lockKey
              /\ (out'.op = "Get" /\ out'.found) =>
                     /\ out'.key \in DOMAIN written
                     /\ out'.entry.Value = written[out'.key].v
       /\ out' = NoOut =>
              /\ UNCHANGED <<data, written>>
              /\ lockKey \notin DOMAIN data']_vars

\* C21 witness: while the lease is held under the name "a" with its channel
\* open, the entry with the key "_lock/a" has been Put and the record is as
\* it was written by the claim or the last renewal.
C21_PutBesideLease ==
    /\ out.op = "Put" /\ ~out.err /\ out.key = <<"_lock", "/", "a">>
    /\ lockKey = LockWith(<<"a">>)
    /\ rec # NoRec /\ rec.val = "a" /\ rec.ttl < Expiry
    /\ \E t \in DOMAIN tasks : tasks[t].inst = 1 /\ OpenCh(t)
    /\ keyPath(out.key) \in DOMAIN data

\* C22: a status read made while there is no attempt, be it before the first
\* one or after an attempt was cancelled, answers 200 with started false,
\* progress 0, complete false and required the seal threshold; and after a
\* DELETE has answered there is no attempt and no progress left.
C22_IdleStatus ==
    /\ (out.op = "status" /\ core.nonce = 0) =>
           /\ out.code = StatusOK
           /\ ~out.body.Started /\ ~out.body.Complete
           /\ out.body.Progress = 0
           /\ out.body.Required = core.threshold
    /\ out.op = "cancel" =>
           /\ out.code = StatusNoContent
           /\ core.nonce = 0 /\ core.progress = 0
    /\ core.nonce = 0 => core.progress = 0

\* C22 witness: the status is read after the cancelling of an attempt that
\* had made progress.
C22_StatusAfterCancel ==
    /\ out.op = "status" /\ out.code = StatusOK
    /\ core.nonce = 0 /\ core.ended = "cancelled" /\ core.dropped > 0
    /\ ~out.body.Started /\ out.body.Progress = 0
    /\ out.body.Required = core.threshold

\* C23: a PUT that answers 204 has started an attempt with a nonce never
\* handed out before and progress 0; a status read during an attempt reports
\* started true, the nonce of the attempt and its progress; the nonce of an
\* attempt is dropped only by a DELETE or by the update that completes the
\* attempt, and the progress of an attempt changes only by a DELETE or an
\* update answered with 200.
C23_AttemptStatus ==
    [][/\ (out'.op = "init" /\ out'.code = StatusNoContent) =>
              /\ core.nonce = 0
              /\ core'.nonce > core.attempts
              /\ core'.progress = 0
       /\ (out'.op = "status" /\ core.nonce # 0) =>
              /\ out'.code = StatusOK
              /\ out'.body.Started /\ ~out'.body.Complete
              /\ out'.body.Nonce = core.nonce
              /\ out'.body.Progress = core.progress
       /\ (core.nonce # 0 /\ core'.nonce # core.nonce) =>
              /\ core'.nonce = 0
              /\ \/ out'.op = "cancel"
                 \/ /\ out'.op = "update" /\ out'.code = StatusOK
                    /\ out'.body.Complete
       /\ (core.nonce # 0 /\ core'.progress # core.progress) =>
              \/ out'.op = "cancel"
              \/ out'.op = "update" /\ out'.code = StatusOK
    ]_vars

\* C23 witness: the status of the second attempt is read, and reports the
\* second nonce and no progress.
C23_StatusOfSecondAttempt ==
    /\ out.op = "status" /\ out.code = StatusOK
    /\ core.attempts = 2 /\ core.nonce = 2 /\ core.progress = 0
    /\ out.body.Started /\ out.body.Nonce = 2 /\ out.body.Progress = 0

\* C24: an update sent while there is no attempt, or with another nonce than
\* the one of the attempt, is answered with 400 and changes nothing of the
\* root generation.
C24_UpdateNeedsNonce ==
    (out.op = "update" /\ (out.before.nonce = 0 \/ out.nonce # out.before.nonce)) =>
        /\ out.code = StatusBadRequest
        /\ core = out.before

\* C24 witness: after init, cancel and a second init, the share is sent
\* without a nonce and is answered with 400.
C24_ReInitUpdate ==
    /\ out.op = "update" /\ out.code = StatusBadRequest
    /\ DecodeString(out.key).bytes = Share /\ out.nonce = 0
    /\ core.attempts = 2 /\ core.nonce = 2 /\ core.ended = "cancelled"
    /\ core.progress = 0

\* C25: closing stopCh changes neither the lease record nor any goroutine or
\* channel nor where a caller stands; an open loss channel is closed only by
\* a failed renewal of its own goroutine, and a renewal that succeeds leaves
\* the channel open and the goroutine running whether or not stopCh was
\* closed; the lease record disappears only through Unlock, through expiry
\* or through an outside deletion.
C25_StopIgnoredOnceHeld ==
    [][/\ last'.op = "stop" => (rec' = rec /\ tasks' = tasks /\ pc' = pc)
       /\ \A t \in DOMAIN tasks : OpenCh(t) =>
              \/ tasks'[t].closes = 0 /\ tasks'[t].run
              \/ /\ last'.op = "renew" /\ last'.who = t
                 /\ last'.res \in {"0", "err"}
       /\ \A t \in DOMAIN tasks :
              (last'.op = "renew" /\ last'.who = t /\ last'.res = "1") =>
                  (tasks'[t].closes = 0 /\ tasks'[t].run)
       /\ (rec # NoRec /\ rec' = NoRec) => last'.op \in {"unlock", "tick", "expire"}]_vars

\* C25 witness: stopCh of the holder was closed after Lock returned, and a
\* later renewal has just extended the holder's record, the channel open.
C25_RenewedAfterStop ==
    \E t \in DOMAIN tasks :
        /\ Renewed(t) /\ last.res = "1"
        /\ Len(tasks) = 1
        /\ stop[tasks[t].inst] = "closed" /\ pc[tasks[t].inst] = "idle"
        /\ OpenCh(t) /\ tasks[t].run
        /\ rec = [val |-> OwnValue(t), ttl |-> Expiry]

\* C26: a claim starts exactly one goroutine, whose channel is open when
\* Lock returns; the goroutine runs its script for the first time, and so
\* the channel is closed, no earlier than one renew interval after the claim.
C26_FirstRenewalAfterInterval ==
    /\ \A i \in Inst : LockReturned(i, "chan") =>
           /\ Len(tasks) = last.n + 1
           /\ tasks[Len(tasks)].inst = i
           /\ OpenCh(Len(tasks)) /\ tasks[Len(tasks)].run
           /\ tasks[Len(tasks)].since = 0
    /\ \A t \in DOMAIN tasks :
           /\ Renewed(t) => tasks[t].since >= lockConf.leaderTTLRenewInterval
           /\ ~OpenCh(t) => tasks[t].since >= lockConf.leaderTTLRenewInterval
           /\ tasks[t].since < lockConf.leaderTTLRenewInterval =>
                  \A o \in Outcome : ~ENABLED Renew(t, o)

\* C26 witness: the first renewal of a goroutine has just run, one renew
\* interval after the claim and not a tick later, and found the record gone.
C26_FirstRenewalOnTime ==
    \E t \in DOMAIN tasks :
        /\ Renewed(t) /\ last.res = "0" /\ tasks[t].closes = 1
        /\ tasks[t].since = lockConf.leaderTTLRenewInterval
        /\ last.before = NoRec
        /\ gone = "deleted"

\* C27: a renewal that finds its own value in the record and meets no
\* transport error sets the expiry to the full rounded TTL, leaves the loss
\* channel open and the goroutine running, asleep for another renew
\* interval; a channel is closed by a renewal only when the renewal met an
\* error, an absent record or another value; and a running goroutine whose
\* sleep is over can always make its next attempt.
C27_NoFalseLoss ==
    \A t \in DOMAIN tasks :
        /\ (/\ Renewed(t) /\ last.res # "err"
            /\ last.before # NoRec /\ last.before.val = OwnValue(t)) =>
               /\ last.res = "1"
               /\ rec = [val |-> OwnValue(t), ttl |-> Expiry]
               /\ OpenCh(t) /\ tasks[t].run
               /\ tasks[t].timer = lockConf.leaderTTLRenewInterval
        /\ (Renewed(t) /\ ~OpenCh(t)) =>
               \/ last.res = "err"
               \/ last.before = NoRec
               \/ last.before.val # OwnValue(t)
        /\ (tasks[t].run /\ tasks[t].timer <= 0) => ENABLED Renew(t, "ok")

\* C27 witness: a renewal one tick late has just found its value in a record
\* that had less than the full expiry left, and reset it; no record was ever
\* deleted or expired, and the channel is open.
C27_LateRenewalKeepsLease ==
    \E t \in DOMAIN tasks :
        /\ Renewed(t) /\ last.res = "1"
        /\ last.before.val = OwnValue(t)
        /\ last.before.ttl = Expiry - lockConf.leaderTTLRenewInterval - 1
        /\ rec.ttl = Expiry /\ OpenCh(t) /\ tasks[t].run
        /\ gone = "none"

\* C28: an update answered with 200 reports started true, the nonce of the
\* request, and complete true exactly when the progress it reports equals
\* the required count it reports; any other answer to an update has no body.
C28_UpdateResponse ==
    out.op = "update" =>
        IF out.code = StatusOK
        THEN /\ out.body.Started
             /\ out.body.Nonce = out.nonce
             /\ out.body.Complete <=> (out.body.Progress = out.body.Required)
        ELSE out.body = NoBody

\* C28 witness: the first of two required shares was taken; the response says
\* started, not complete.
C28_FirstOfTwo ==
    /\ out.op = "update" /\ out.code = StatusOK
    /\ out.body.Started /\ ~out.body.Complete
    /\ out.body.Progress = 1 /\ out.body.Required = 2
    /\ out.body.Nonce = out.nonce /\ out.nonce = core.nonce

\* C29: Unlock itself closes no loss channel and stops no goroutine: it
\* leaves every goroutine running or returned as it was, with its channel
\* and its sleep untouched.  The goroutine whose value the record held when
\* Unlock deleted it, the key not having been claimed with that value since,
\* fails at its next renewal: it finds no record or another value (or meets
\* an error), closes its channel once and returns.
C29_UnlockLeavesLossToRenewal ==
    [][/\ last'.op = "unlock" =>
             /\ DOMAIN tasks' = DOMAIN tasks
             /\ \A t \in DOMAIN tasks :
                    /\ tasks'[t].run = tasks[t].run
                    /\ tasks'[t].closes = tasks[t].closes
                    /\ tasks'[t].timer = tasks[t].timer
       /\ \A t \in DOMAIN tasks :
             (last'.op = "renew" /\ last'.who = t /\ tasks[t].hit = "unlocked") =>
                 /\ tasks[t].run /\ tasks[t].closes = 0
                 /\ rec = NoRec \/ rec.val # value[tasks[t].inst]
                 /\ last'.res \in {"0", "err"}
                 /\ rec' = rec
                 /\ tasks'[t].closes = 1 /\ ~tasks'[t].run
    ]_vars

\* C29 witness: the goroutine of an instance that unlocked its lease has
\* just found the key claimed with another value, closed its channel and
\* returned.
C29_LossAfterUnlock ==
    \E t \in DOMAIN tasks :
        /\ Renewed(t) /\ tasks[t].hit = "unlocked"
        /\ last.res = "0"
        /\ last.before # NoRec /\ last.before.val # OwnValue(t)
        /\ tasks[t].closes = 1 /\ ~tasks[t].run

\* C30: the lease record always carries an expiry of at most the rounded
\* TTL, and the claim of Lock sets it to the rounded TTL; a record whose
\* value no running goroutine has is never given more time, so that it is
\* gone within the rounded TTL; and when the process of the lock object
\* whose value the record holds is dead and no goroutine renews the record,
\* the call of Lock of another that waits in the retry loop comes to an end:
\* it claims the lease, unless another call claims it, or it is cancelled,
\* meets an error or dies first.
C30_CrashedHolderExpires ==
    /\ [](/\ rec # NoRec => rec.ttl \in 1..Expiry
          /\ \A i \in Inst : LockReturned(i, "chan") =>
                 rec = [val |-> value[i], ttl |-> Expiry])
    /\ [][(/\ rec # NoRec
           /\ \A t \in DOMAIN tasks : tasks[t].run => OwnValue(t) # rec.val) =>
              \/ rec' = NoRec \/ rec' = rec
              \/ rec'.val = rec.val /\ rec'.ttl < rec.ttl
         ]_vars
    /\ \A i \in Inst :
          (/\ pc[i] = "select" /\ rec # NoRec
           /\ \E j \in Inst : pc[j] = "dead" /\ rec.val = value[j]
           /\ \A t \in DOMAIN tasks : tasks[t].run => OwnValue(t) # rec.val)
              ~> (\/ \E k \in Inst : LockReturned(k, "chan")
                  \/ LockReturned(i, "nil")
                  \/ LockReturned(i, "err")
                  \/ pc[i] = "dead")

\* C30 witness: the holder is dead, its record has expired, and the call of
\* Lock that waited through that has just claimed the lease.
C30_ClaimedAfterCrash ==
    \E i, j \in Inst :
        /\ pc[j] = "dead"
        /\ LockReturned(i, "chan")
        /\ last.before = NoRec /\ gone = "none"
        /\ rec = [val |-> value[i], ttl |-> Expiry]
        /\ Len(tasks) = 2 /\ tasks[1].inst = j /\ tasks[1].closes = 0
        /\ tasks[2].inst = i /\ tasks[2].run

\* C31: a call of Lock made with a stopCh that is closed already, on a key
\* without a record, claims the lease unless the command fails: it writes
\* its value with the full expiry, starts the renewal goroutine and returns
\* an open channel.  Lock returns nil, nil only out of the select, that is
\* after an attempt that was refused.
C31_StopConsultedAfterAttempt ==
    [][\A i \in Inst :
          /\ (/\ last'.op = "lock" /\ last'.who = i /\ pc[i] = "idle"
              /\ stop'[i] = "prefired" /\ rec = NoRec) =>
                 /\ last'.res \in {"chan", "err"}
                 /\ last'.res = "chan" =>
                        /\ rec' = [val |-> value[i], ttl |-> Expiry]
                        /\ tasks' = Append(tasks, NewTask(i))
                        /\ pc'[i] = "idle"
          /\ (last'.op = "lock" /\ last'.who = i /\ last'.res = "nil") =>
                 /\ pc[i] = "select" /\ stop[i] # "open"
                 /\ rec' = rec /\ tasks' = tasks
    ]_vars

\* C31 witness: a call of Lock with a closed stopCh has just claimed the free
\* key; its goroutine runs and its channel is open.
C31_PrefiredClaimed ==
    \E i \in Inst :
        /\ LockReturned(i, "chan") /\ stop[i] = "prefired"
        /\ last.before = NoRec
        /\ rec = [val |-> value[i], ttl |-> Expiry]
        /\ tasks[Len(tasks)].inst = i /\ tasks[Len(tasks)].run
        /\ OpenCh(Len(tasks))

\* C32: whether Unlock or a renewal touches the lease record depends on the
\* value alone.  Unlock that finds its value deletes the record and returns
\* no error, whichever object claimed the lease, and so does Unlock of an
\* object that never acquired; a renewal that finds its value sets the expiry
\* to the full TTL.  Unlock or a renewal that finds another value leaves the
\* record as it was.
C32_OwnershipByValue ==
    /\ \A i \in Inst : (Unlocked(i) /\ last.res # "err" /\ last.before # NoRec) =>
           IF last.before.val = value[i]
           THEN last.res = "ok" /\ rec = NoRec
           ELSE last.res = "notowner" /\ rec = last.before
    /\ \A t \in DOMAIN tasks :
           (Renewed(t) /\ last.res # "err" /\ last.before # NoRec) =>
               IF last.before.val = OwnValue(t)
               THEN last.res = "1" /\ rec = [last.before EXCEPT !.ttl = Expiry]
               ELSE last.res = "0" /\ rec = last.before

\* C32 witness: two objects have the same value; the one that never called
\* Lock has just unlocked the lease of the other, whose goroutine still runs,
\* and got no error.
C32_ForeignUnlock ==
    \E i, j \in Inst :
        /\ i # j /\ value[i] = value[j]
        /\ Unlocked(i) /\ last.res = "ok"
        /\ last.before # NoRec /\ rec = NoRec
        /\ Len(tasks) = 1 /\ tasks[1].inst = j /\ tasks[1].run /\ OpenCh(1)

\* C33: Unlock that finds no lease record and meets no transport error
\* returns the not-owner error and changes neither the store nor a
\* goroutine; and Unlock of an object right after a successful Unlock of the
\* same object returns the not-owner error.
C33_UnlockNotIdempotent ==
    [][\A i \in Inst :
          (last'.op = "unlock" /\ last'.who = i /\ last'.res # "err") =>
              /\ rec = NoRec =>
                     /\ last'.res = "notowner"
                     /\ rec' = NoRec /\ tasks' = tasks /\ gone' = gone
              /\ (Unlocked(i) /\ last.res = "ok") =>
                     last'.res = "notowner" /\ rec' = rec
    ]_vars

\* C33 witness: the holder has unlocked its lease and, its goroutine not
\* having noticed yet, has just called Unlock again and got the not-owner
\* error.
C33_SecondUnlock ==
    \E i \in Inst, t \in DOMAIN tasks :
        /\ Unlocked(i) /\ last.res = "notowner"
        /\ last.before = NoRec /\ rec = NoRec /\ gone = "deleted"
        /\ tasks[t].inst = i /\ tasks[t].run /\ tasks[t].hit = "unlocked"

\* C34: the renewal that closes the channel leaves the lease record as it
\* was, and a goroutine that has returned sends no further command; a record
\* in the store is changed only by the passing of time, by Unlock, by a
\* renewal of a goroutine that still runs or by a deletion from outside, and
\* never by a call of Lock: while the record of a lost lease stands, no call
\* of Lock claims the key.
C34_LostLeaseStaysInStore ==
    [][/\ \A t \in DOMAIN tasks :
             /\ tasks'[t].closes # tasks[t].closes =>
                    /\ last'.op = "renew" /\ last'.who = t
                    /\ rec' = rec /\ ~tasks'[t].run
             /\ (last'.op = "renew" /\ last'.who = t) => tasks[t].run
       /\ (rec # NoRec /\ rec' # rec) =>
             /\ last'.op \in {"tick", "unlock", "renew", "expire"}
             /\ last'.op = "renew" =>
                    /\ tasks[last'.who].run
                    /\ value[tasks[last'.who].inst] = rec.val
                    /\ rec' = [rec EXCEPT !.ttl = Expiry]
    ]_vars

\* C34 witness: a holder lost its lease to a transport error and its
\* goroutine has returned; no goroutine runs, the record still holds the
\* holder's value, and the call of Lock of another object has just been
\* refused.
C34_RefusedAfterLoss ==
    \E i, j \in Inst :
        /\ i # j /\ value[i] # value[j]
        /\ LockReturned(j, "wait")
        /\ rec # NoRec /\ rec.val = value[i]
        /\ Len(tasks) = 1 /\ tasks[1].inst = i
        /\ tasks[1].closes = 1 /\ ~tasks[1].run

\* C35: an attempt of Lock made while the key has a record, whatever value
\* the record holds and whichever object holds it, returns no channel,
\* starts no goroutine and leaves the record as it was; a call leaves the
\* retry loop only by claiming a key without a record, by taking a stopCh
\* that has fired, or by a failed command.
C35_NotReentrant ==
    [][\A i \in Inst :
          /\ (last'.op = "lock" /\ last'.who = i /\ rec # NoRec) =>
                 /\ last'.res \in {"wait", "nil", "err"}
                 /\ rec' = rec /\ tasks' = tasks
          /\ (pc[i] = "select" /\ pc'[i] # "select") =>
                 /\ last'.op = "lock" /\ last'.who = i
                 /\ \/ last'.res = "chan" /\ rec = NoRec
                    \/ last'.res = "nil" /\ stop[i] # "open"
                    \/ last'.res = "err"
    ]_vars

\* C35 witness: the object that holds the lease, its goroutine running and
\* its channel open, has called Lock again, and a retry has just been
\* refused.
C35_HolderWaitsOnItself ==
    \E i \in Inst :
        /\ LockReturned(i, "wait") /\ pc[i] = "select"
        /\ last.before # NoRec /\ last.before.ttl < Expiry
        /\ rec.val = value[i]
        /\ Len(tasks) = 1 /\ tasks[1].inst = i /\ tasks[1].run /\ OpenCh(1)

\* C36: a call of Lock that waits in the retry loop holds at most one
\* connection of the pool at any time, whatever the number of failed
\* attempts: the connection of a failed attempt is back in the pool before
\* the next attempt takes one, and none is held once Lock has returned.
C36_Original ==
    \A i \in Inst :
        /\ pool.held[i] <= 1
        /\ pc[i] # "select" => pool.held[i] = 0

====
